---- MODULE Spec2Model ----
(***************************************************************************)
(* Stale-while-revalidate reviewer cache of show-pr-reviewers              *)
(* (src/src/background.ts), with the two operations of the options page    *)
(* that touch the same storage (src/src/options.tsx: saveToken,            *)
(* clearCache).                                                            *)
(*                                                                         *)
(* Every await of the source is a scheduling point: a getReviewers call is *)
(* the steps  storage read -> decision -> [token read -> HTTP exchange ->  *)
(* storage write] -> response, and the detached refresh of the stale path  *)
(* is a second thread of the same call that runs the bracketed steps.      *)
(*                                                                         *)
(* The pull request list page (src/src/content_script.tsx: injectReviewers) *)
(* is modelled beside it: its rows, the runs of injectReviewers and the     *)
(* message each run sends.                                                  *)
(***************************************************************************)
EXTENDS Integers, Sequences, FiniteSets, TLC

\* ------------------------------------------------------------ constants

\* mutant: a TTL of ten minutes, as a settings override might supply
CACHE_TTL_MS_Overridden == 10 * 60 * 1000

\* background.ts:27  const CACHE_TTL_MS = 5 * 60 * 1000
CACHE_TTL_MS == 5 * 60 * 1000

\* ---------------------------------------------------------------- bounds

\* number of GET_REVIEWERS messages delivered in one behaviour
MaxReq == 3
\* pull requests are numbered 1..MaxPR
MaxPR == 2
\* number of times the clock advances in one behaviour
MaxTicks == 1
\* number of clearCache runs in one behaviour
MaxClears == 1
\* number of saveToken runs in one behaviour
MaxSaves == 1
\* number of messages that may await their response at the same time
MaxPending == 1

\* number of row elements that appear in the page in one behaviour
MaxRows == 3
\* number of injectReviewers runs in one behaviour
MaxRuns == 3

Requests == 1..MaxReq
Kinds == {"sync", "bg"}
Threads == Requests \X Kinds

\* the partitions (owner, repo) that messages may name
Partitions == {<<"octo", "app">>, <<"octo", "lib">>}

\* ------------------------------------------- JavaScript value conversions

Digit(d) == CASE d = 0 -> "0" [] d = 1 -> "1" [] d = 2 -> "2" [] d = 3 -> "3"
              [] d = 4 -> "4" [] d = 5 -> "5" [] d = 6 -> "6" [] d = 7 -> "7"
              [] d = 8 -> "8" [] d = 9 -> "9"

RECURSIVE NumberToString(_)
\* String(num) / `${num}` of a non-negative integer: its decimal digits
NumberToString(n) ==
    IF n < 10 THEN Digit(n) ELSE NumberToString(n \div 10) \o Digit(n % 10)

\* the empty object {} as a mapping from string keys to reviewer arrays
EmptyObject == [k \in {} |-> <<>>]

\* { ...a, ...b } : every own key of a and b, the value of b winning
ObjectSpread(a, b) ==
    [k \in (DOMAIN a) \cup (DOMAIN b) |-> IF k \in DOMAIN b THEN b[k] ELSE a[k]]

\* Record keys of the requested numbers: String(num) for each element
KeysOf(prNumbers) == {NumberToString(prNumbers[i]) : i \in DOMAIN prNumbers}

\* ------------------------------------------------------ persisted values

\* A raw value of chrome.storage.local under one key.
\*   type      "undefined" (no such key), "string" (a non-object), "object"
\*   has       which of the fields timestamp, data the object has
\*   dataNull  the data field is present and holds null
Raw(type, has, dataNull, timestamp, data) ==
    [type |-> type, has |-> has, dataNull |-> dataNull,
     timestamp |-> timestamp, data |-> data]

Absent == Raw("undefined", {}, FALSE, 0, EmptyObject)

\* the value of a local that its await has not yet assigned
Unread == Raw("unread", {}, FALSE, 0, EmptyObject)

\* the value setCachedData persists: { timestamp, data }
Entry(timestamp, data) == Raw("object", {"timestamp", "data"}, FALSE, timestamp, data)

\* mutant: the entry keeps the timestamp of the first write instead of being
\* stamped
setCachedDataUnstamped(data, t) == Entry(0, data)

\* setCachedData(owner, repo, data) called at clock value t: the entry it
\* builds and hands to chrome.storage.local.set
setCachedData(data, t) == Entry(t, data)

Reviewer(login, avatarUrl) == [login |-> login, avatarUrl |-> avatarUrl]

\* mutant: the key names the owner alone
getCacheKeyOwnerOnly(owner, repo) == "reviewers:" \o owner

\* getCacheKey(owner, repo) = `reviewers:${owner}/${repo}`
getCacheKey(owner, repo) == "reviewers:" \o owner \o "/" \o repo

StorageKeys == {getCacheKey(p[1], p[2]) : p \in Partitions}

\* mutant: the validation without its `"data" in entry` test
getCachedDataNoDataTest(raw) ==
    IF /\ raw.type # "undefined"
       /\ raw.type = "object"
       /\ "timestamp" \in raw.has
    THEN raw
    ELSE Absent

\* getCachedData's validation of the value read: the entry itself, or null
\* (modelled as Absent) when it is falsy, not an object, or lacks a field
getCachedData(raw) ==
    IF /\ raw.type # "undefined"
       /\ raw.type = "object"
       /\ "timestamp" \in raw.has
       /\ "data" \in raw.has
    THEN raw
    ELSE Absent

\* the truthiness test `cachedEntry` of getReviewers: null is falsy
IsEntry(cachedEntry) == cachedEntry.type = "object"

\* mutant: >= in place of >
isCacheStaleInclusive(entry, t) ==
    "timestamp" \in entry.has /\ t - entry.timestamp >= CACHE_TTL_MS

\* isCacheStale(entry) at clock value t; without a timestamp the difference
\* is NaN, and NaN > CACHE_TTL_MS is false
isCacheStale(entry, t) ==
    "timestamp" \in entry.has /\ t - entry.timestamp > CACHE_TTL_MS

\* entry.data is null or undefined: reading a key of it throws a TypeError
DataNullish(entry) == entry.dataNull \/ "data" \notin entry.has

\* mutant: `if (cachedEntry.data[key]?.length)`, an empty array counting as
\* missing
HasCachedNonEmpty(data, key) == key \in DOMAIN data /\ data[key] # <<>>

\* `if (cachedEntry.data[key])`: a missing key reads undefined (falsy); an
\* array, empty or not, is truthy
HasCached(data, key) == key \in DOMAIN data

\* mutant: the whole cached mapping is returned, unfiltered
filteredCacheUnfiltered(data, prNumbers) == data

\* filteredCache of getReviewers: the cached values of the requested keys
filteredCache(data, prNumbers) ==
    [k \in {key \in KeysOf(prNumbers) : HasCached(data, key)} |-> data[k]]

\* hasAllData of getReviewers
hasAllData(data, prNumbers) ==
    \A i \in DOMAIN prNumbers : HasCached(data, NumberToString(prNumbers[i]))

\* ------------------------------------------------------- credential store

\* A raw value of chrome.storage.sync under "githubToken"
NoToken == [type |-> "undefined", value |-> ""]
TokenValue(v) == [type |-> "string", value |-> v]

\* getGitHubToken: the token when it is a non-empty string, else null,
\* as a sequence of at most one element
getGitHubToken(raw) ==
    IF raw.type = "string" /\ raw.value # "" THEN <<raw.value>> ELSE <<>>

\* ------------------------------------------------------------ remote API

\* the value of a property the JSON does not carry
Undefined == "#undefined"

\* JavaScript truthiness of a string-or-undefined value
Truthy(v) == v # Undefined /\ v # ""

\* a reviewRequests node; requestedReviewer is null (<<>>) or an object
\* (<<[login, avatarUrl]>>) whose fields may be undefined
NullNode == [requestedReviewer |-> <<>>]
TeamNode == [requestedReviewer |-> <<[login |-> Undefined, avatarUrl |-> Undefined]>>]
UserNode(login, avatarUrl) ==
    [requestedReviewer |-> <<[login |-> login, avatarUrl |-> avatarUrl]>>]

\* what the remote may hold as reviewRequests.nodes of pull request n
RemoteNodes(n) ==
    { <<>>,
      <<NullNode, TeamNode, UserNode("rev" \o NumberToString(n), Undefined)>> }

\* the alias of the index-th sub-query (index counts from 0)
Alias(index) == "pr" \o NumberToString(index)

\* buildGraphQLQuery: one aliased pullRequest(number:) per element
buildGraphQLQuery(prNumbers) ==
    [i \in DOMAIN prNumbers |-> [alias |-> Alias(i - 1), number |-> prNumbers[i]]]

\* the repository objects the remote may answer a query with: any subset of
\* the aliases (an omitted alias is null) with nodes of the aliased number
RepoDatas(query) ==
    LET aliases == {query[i].alias : i \in DOMAIN query}
        numberOf(a) == (CHOOSE i \in DOMAIN query : query[i].alias = a)
        nodes == UNION {RemoteNodes(query[i].number) : i \in DOMAIN query}
    IN  UNION { {f \in [S -> nodes] :
                   \A a \in S : f[a] \in RemoteNodes(query[numberOf(a)].number)}
                : S \in SUBSET aliases }

\* everything the HTTP exchange of fetchReviewersFromAPI may settle with
HttpOutcomes(query) ==
    {[kind |-> "reject"]}
    \cup {[kind |-> "status", status |-> 502]}
    \cup {[kind |-> "errors", message |-> "rate limited"]}
    \cup {[kind |-> "norepo"]}
    \cup {[kind |-> "data", repository |-> r] : r \in RepoDatas(query)}

\* the reviewers pushed for one prData: nodes with a truthy login, in order,
\* avatarUrl || ""
ParseNodes(nodes) ==
    LET keep == SelectSeq(nodes,
                   LAMBDA nd : /\ Len(nd.requestedReviewer) > 0
                               /\ Truthy(nd.requestedReviewer[1].login))
    IN  [j \in 1..Len(keep) |->
            Reviewer(keep[j].requestedReviewer[1].login,
                     IF Truthy(keep[j].requestedReviewer[1].avatarUrl)
                     THEN keep[j].requestedReviewer[1].avatarUrl
                     ELSE "")]

\* mutant: the repository object read as an array; the j-th alias present is
\* taken for the j-th requested number
ParseResponseCompacted(prNumbers, repoData) ==
    LET present == {i \in DOMAIN prNumbers : Alias(i - 1) \in DOMAIN repoData}
        rank(i) == Cardinality({j \in present : j <= i})
        keys == {NumberToString(prNumbers[rank(i)]) : i \in present}
        from(k) == CHOOSE i \in present : NumberToString(prNumbers[rank(i)]) = k
    IN  [k \in keys |-> ParseNodes(repoData[Alias(from(k) - 1)])]

\* the result mapping built by prNumbers.forEach: result[String(num)] for each
\* index whose alias the repository object carries (the last such index wins)
ParseResponse(prNumbers, repoData) ==
    LET present == {i \in DOMAIN prNumbers : Alias(i - 1) \in DOMAIN repoData}
        keys == {NumberToString(prNumbers[i]) : i \in present}
        last(k) == CHOOSE i \in present :
                      /\ NumberToString(prNumbers[i]) = k
                      /\ \A j \in present :
                            NumberToString(prNumbers[j]) = k => j <= i
    IN  [k \in keys |-> ParseNodes(repoData[Alias(last(k) - 1)])]

\* a thrown Error and what the catch clauses make of it
Err(message) == [isError |-> TRUE, message |-> message]
ErrorMessage(e) == IF e.isError THEN e.message ELSE "Unknown error"

\* the failure response of getReviewers' catch and of the listener's catch
Failure(e) == [success |-> FALSE, error |-> ErrorMessage(e)]

\* the two success responses
FromCache(data) == [success |-> TRUE, data |-> data, fromCache |-> TRUE]
Fetched(data) == [success |-> TRUE, data |-> data, fromCache |-> FALSE]

\* ------------------------------------------------------------------ state

VARIABLES
    store,        \* chrome.storage.local: storage key -> raw value
    githubToken,  \* chrome.storage.sync "githubToken": raw value
    now,          \* Date.now()
    ticks,        \* how often the clock has advanced
    saves,        \* how often saveToken has run
    msg,          \* call -> the GET_REVIEWERS message
    rpc,          \* call -> "idle", "read" (awaiting getCachedData),
                  \*         "wait" (awaiting its fetch), "done" (the listener
                  \*         has finished with it), "gone" (collected)
    entryRead,    \* call -> result[key] of getCachedData (Unread before)
    cachedEntry,  \* call -> cachedEntry of getReviewers (Absent for null)
    readAt,       \* call -> Date.now() when the entry was examined
    responses,    \* call -> the values passed to sendResponse, in order
    fetchArgs,    \* thread -> prNumbers passed to fetchReviewersFromAPI
    fpc,          \* thread -> "none", "token" (awaiting getGitHubToken),
                  \*           "http" (awaiting fetch), "write" (awaiting
                  \*           storage.set), "done", "failed"
    result,       \* thread -> the mapping fetchReviewersFromAPI returned
    pending,      \* thread -> the entry setCachedData is persisting
    httpCalls,    \* thread -> number of fetch() calls issued
    clearpc,      \* clearCache: "idle", "remove" (awaiting storage.remove)
    clearKeys,    \* clearCache: cacheKeys
    clears,       \* number of clearCache runs started
    overlap,      \* a message arrived while another had no response yet
    stored,       \* storage key -> the keys that calls have stored in its
                  \*                entry since it was last removed
    retKeys,      \* call -> keys of its partition's entry when it responded
    retStored,    \* call -> stored of its partition when it responded
    rows,         \* row element -> its attributes and content in the page
    pathIsPulls,  \* window.location.pathname is a pull request list's
    ipc,          \* injectReviewers run -> "idle", "await" (awaiting
                  \*   sendMessage), "done"
    rowMap,       \* run -> rowMap: pull request number -> row element
    sent,         \* run -> prNumbers of the message it sent
    included      \* row element -> the runs that sent a message with its
                  \*   number taken from it

reqVars == <<msg, rpc, entryRead, cachedEntry, readAt, responses>>
thrVars == <<fetchArgs, fpc, result, pending, httpCalls>>
envVars == <<store, githubToken, now, ticks, saves>>
clrVars == <<clearpc, clearKeys, clears>>
histVars == <<overlap, stored, retKeys, retStored>>
bgVars == <<reqVars, thrVars, envVars, clrVars, histVars>>
domVars == <<rows, pathIsPulls, ipc, rowMap, sent, included>>
vars == <<bgVars, domVars>>

\* the non-empty sequences of distinct pull request numbers
PrNumberLists ==
    {s \in UNION {[1..n -> 1..MaxPR] : n \in 1..MaxPR} :
        \A i, j \in DOMAIN s : i # j => s[i] # s[j]}

NoMessage == [type |-> "", owner |-> "", repo |-> "", prNumbers |-> <<>>]

KeyOf(i) == getCacheKey(msg[i].owner, msg[i].repo)

\* cachedEntry?.data || {}  and  { ...cachedEntry.data }: the own keys of the
\* snapshot's data, none when the entry or its data is null
existingData(entry) ==
    IF IsEntry(entry) /\ ~DataNullish(entry) THEN entry.data ELSE EmptyObject

\* the keys a raw stored value holds as a cache entry
StoredKeys(raw) == DOMAIN existingData(getCachedData(raw))

\* values a previous session may have left under a storage key
OldEntry == Entry(0, "1" :> <<Reviewer("old", "o.png")>>)
NullDataEntry == Raw("object", {"timestamp", "data"}, TRUE, 0, EmptyObject)
InitRaws == {Absent, OldEntry, NullDataEntry}

\* malformed values: a non-object, an object without data, an object without
\* timestamp, an object whose data is null
MalformedRaws ==
    { Raw("string", {}, FALSE, 0, EmptyObject),
      Raw("object", {"timestamp"}, FALSE, 0, EmptyObject),
      Raw("object", {"data"}, FALSE, 0, "1" :> <<Reviewer("old", "o.png")>>),
      NullDataEntry }

\* ------------------------------------------------- pull request list page

Runs == 1..MaxRuns
RowIds == 1..MaxRows

RECURSIVE ParseInt(_)
\* parseInt(text, 10) of a text of decimal digits, given as their sequence
ParseInt(digits) ==
    IF Len(digits) = 0 THEN 0
    ELSE 10 * ParseInt(SubSeq(digits, 1, Len(digits) - 1)) + digits[Len(digits)]

\* parseInt(prNumber, 10) of a key of response.data: the number whose decimal
\* digits the key is
ParseIntKey(key) == CHOOSE n \in 0..(10 * MaxPR + 9) : NumberToString(n) = key

\* What the page may hold as an element that SELECTORS.prRow matches:
\*   link          digits of /pull/(\d+) in the href of its prLink, <<>> if none
\*   dataId        digits of its data-id attribute, <<>> if none
\*   rightSection  it has a SELECTORS.rightSection descendant
RowKinds ==
    { [link |-> <<1>>, dataId |-> <<>>, rightSection |-> TRUE],
      [link |-> <<2>>, dataId |-> <<>>, rightSection |-> TRUE],
      [link |-> <<2>>, dataId |-> <<>>, rightSection |-> FALSE],
      [link |-> <<>>, dataId |-> <<1>>, rightSection |-> TRUE],
      [link |-> <<0>>, dataId |-> <<2>>, rightSection |-> TRUE],
      [link |-> <<>>, dataId |-> <<>>, rightSection |-> TRUE] }

\* A row element: where it is ("none" not created yet, "dom" in the document,
\* "detached" removed from it), its kind, whether it bears
\* data-reviewer-processed, and how many data-reviewer-column cells it holds
RowElement(where, kind, processed, columns) ==
    [where |-> where, kind |-> kind, processed |-> processed, columns |-> columns]

NoKind == [link |-> <<>>, dataId |-> <<>>, rightSection |-> FALSE]
NoRow == RowElement("none", NoKind, FALSE, 0)

\* getPRNumberFromRow: the number of the link, else of data-id, else null,
\* as a sequence of at most one element
getPRNumberFromRow(row) ==
    IF row.kind.link # <<>> THEN <<ParseInt(row.kind.link)>>
    ELSE IF row.kind.dataId # <<>> THEN <<ParseInt(row.kind.dataId)>>
    ELSE <<>>

\* `if (prNumber)`: null and 0 are falsy
NumberTruthy(v) == Len(v) > 0 /\ v[1] # 0

\* document.querySelectorAll(SELECTORS.prRow): the rows of the document
\* without data-reviewer-processed
PrRows == {r \in RowIds : rows[r].where = "dom" /\ ~rows[r].processed}

\* the rows of prRows that the forEach of injectReviewers puts into rowMap and
\* marks
Marked == {r \in PrRows : NumberTruthy(getPRNumberFromRow(rows[r]))}

RECURSIVE ScanRows(_, _, _)
\* prRows.forEach from row r on, in document order: rowMap.set(prNumber, row)
\* for each row with a truthy number; keys are in order of first insertion
ScanRows(r, map, keys) ==
    IF r > MaxRows THEN [map |-> map, keys |-> keys]
    ELSE IF r \in Marked
         THEN LET n == getPRNumberFromRow(rows[r])[1] IN
              ScanRows(r + 1, (n :> r) @@ map,
                       IF n \in DOMAIN map THEN keys ELSE Append(keys, n))
         ELSE ScanRows(r + 1, map, keys)

EmptyMap == [n \in {} |-> 0]

InitPage ==
    /\ rows = [r \in RowIds |-> NoRow]
    /\ pathIsPulls = TRUE
    /\ ipc = [k \in Runs |-> "idle"]
    /\ rowMap = [k \in Runs |-> EmptyMap]
    /\ sent = [k \in Runs |-> <<>>]
    /\ included = [r \in RowIds |-> {}]

InitOn(parts, raws) ==
    /\ store \in {st \in [StorageKeys -> raws \cup {Absent}] :
                    \A p \in Partitions \ parts : st[getCacheKey(p[1], p[2])] = Absent}
    /\ githubToken = NoToken
    /\ now = 0
    /\ ticks = 0
    /\ saves = 0
    /\ msg = [i \in Requests |-> NoMessage]
    /\ rpc = [i \in Requests |-> "idle"]
    /\ entryRead = [i \in Requests |-> Unread]
    /\ cachedEntry = [i \in Requests |-> Unread]
    /\ readAt = [i \in Requests |-> 0]
    /\ responses = [i \in Requests |-> <<>>]
    /\ fetchArgs = [t \in Threads |-> <<>>]
    /\ fpc = [t \in Threads |-> "none"]
    /\ result = [t \in Threads |-> EmptyObject]
    /\ pending = [t \in Threads |-> Absent]
    /\ httpCalls = [t \in Threads |-> 0]
    /\ clearpc = "idle"
    /\ clearKeys = {}
    /\ clears = 0
    /\ overlap = FALSE
    /\ stored = [k \in StorageKeys |-> {}]
    /\ retKeys = [i \in Requests |-> {}]
    /\ retStored = [i \in Requests |-> {}]
    /\ InitPage

\* ---------------------------------------------------------------- actions

InFlight(t) == fpc[t] \in {"token", "http", "write"}

\* A call that has responded and whose detached refresh, if any, has settled
\* holds nothing that a later step reads: its closure is garbage.
Settled(j) == rpc[j] = "done" /\ ~InFlight(<<j, "bg">>)

\* f with the values of the settled calls (threads) replaced by their
\* initial value
Collect(f, initial) ==
    [j \in Requests |-> IF Settled(j) THEN initial ELSE f[j]]
CollectThreads(f, initial) ==
    [t \in Threads |-> IF Settled(t[1]) THEN initial ELSE f[t]]

\* sendResponse(r) for call i, the store being st and the stored keys sk
\* when it is called
Respond(i, r, st, sk) ==
    /\ responses' = [responses EXCEPT ![i] = Append(@, r)]
    /\ rpc' = [rpc EXCEPT ![i] = "done"]
    /\ retKeys' = [retKeys EXCEPT ![i] = StoredKeys(st[KeyOf(i)])]
    /\ retStored' = [retStored EXCEPT ![i] = sk[KeyOf(i)]]
    /\ UNCHANGED overlap

\* The onMessage listener receives a GET_REVIEWERS message and calls
\* getReviewers, which runs up to its await of getCachedData. The closures of
\* the settled calls are collected.
Request(i, owner, repo, prNumbers) ==
    /\ rpc[i] = "idle"
    /\ \A j \in Requests : j < i => rpc[j] # "idle"
    /\ Cardinality({j \in Requests : rpc[j] \in {"read", "wait"}}) < MaxPending
    /\ msg' = [Collect(msg, NoMessage) EXCEPT ![i] =
                  [type |-> "GET_REVIEWERS", owner |-> owner,
                   repo |-> repo, prNumbers |-> prNumbers]]
    /\ rpc' = [Collect(rpc, "gone") EXCEPT ![i] = "read"]
    /\ overlap' = (overlap \/ \E j \in Requests : rpc[j] \in {"read", "wait"})
    /\ entryRead' = Collect(entryRead, Unread)
    /\ cachedEntry' = Collect(cachedEntry, Unread)
    /\ readAt' = Collect(readAt, 0)
    /\ responses' = Collect(responses, <<>>)
    /\ retKeys' = Collect(retKeys, {})
    /\ retStored' = Collect(retStored, {})
    /\ fetchArgs' = CollectThreads(fetchArgs, <<>>)
    /\ fpc' = CollectThreads(fpc, "none")
    /\ result' = CollectThreads(result, EmptyObject)
    /\ pending' = CollectThreads(pending, Absent)
    /\ httpCalls' = CollectThreads(httpCalls, 0)
    /\ UNCHANGED <<stored, envVars, clrVars>>

\* mutant: the listener without its .catch; the rejection is unhandled
ReadFailsUnhandled(i) ==
    /\ rpc[i] = "read"
    /\ rpc' = [rpc EXCEPT ![i] = "done"]
    /\ UNCHANGED <<msg, entryRead, cachedEntry, readAt, responses>>
    /\ UNCHANGED <<thrVars, envVars, clrVars, histVars>>

\* chrome.storage.local.get rejects: getReviewers rejects outside its try, and
\* the listener's catch sends the failure.
ReadFails(i) ==
    /\ rpc[i] = "read"
    /\ Respond(i, Failure(Err("storage read failed")), store, stored)
    /\ UNCHANGED <<msg, entryRead, cachedEntry, readAt, stored>>
    /\ UNCHANGED <<thrVars, envVars, clrVars>>

\* The entry read has a null data field: cachedEntry.data[key] throws a
\* TypeError outside the try, and the listener's catch sends the failure.
ReadThrows(i) ==
    LET entry == getCachedData(store[KeyOf(i)]) IN
    /\ rpc[i] = "read"
    /\ IsEntry(entry) /\ DataNullish(entry)
    /\ entryRead' = [entryRead EXCEPT ![i] = store[KeyOf(i)]]
    /\ cachedEntry' = [cachedEntry EXCEPT ![i] = entry]
    /\ readAt' = [readAt EXCEPT ![i] = now]
    /\ Respond(i, Failure(Err("Cannot read properties of null")), store, stored)
    /\ UNCHANGED <<msg, stored>>
    /\ UNCHANGED <<thrVars, envVars, clrVars>>

\* The entry covers every requested number and is not stale: respond with
\* the filtered cache.
ServeFresh(i) ==
    LET entry == getCachedData(store[KeyOf(i)]) IN
    /\ rpc[i] = "read"
    /\ IsEntry(entry) /\ ~DataNullish(entry)
    /\ hasAllData(entry.data, msg[i].prNumbers)
    /\ ~isCacheStale(entry, now)
    /\ entryRead' = [entryRead EXCEPT ![i] = store[KeyOf(i)]]
    /\ cachedEntry' = [cachedEntry EXCEPT ![i] = entry]
    /\ readAt' = [readAt EXCEPT ![i] = now]
    /\ Respond(i, FromCache(filteredCache(entry.data, msg[i].prNumbers)),
               store, stored)
    /\ UNCHANGED <<msg, stored>>
    /\ UNCHANGED <<thrVars, envVars, clrVars>>

\* mutant: the stale entry is returned and the refresh is never started
ServeStaleNoRefresh(i) ==
    LET entry == getCachedData(store[KeyOf(i)]) IN
    /\ rpc[i] = "read"
    /\ IsEntry(entry) /\ ~DataNullish(entry)
    /\ hasAllData(entry.data, msg[i].prNumbers)
    /\ isCacheStale(entry, now)
    /\ entryRead' = [entryRead EXCEPT ![i] = store[KeyOf(i)]]
    /\ cachedEntry' = [cachedEntry EXCEPT ![i] = entry]
    /\ readAt' = [readAt EXCEPT ![i] = now]
    /\ Respond(i, FromCache(filteredCache(entry.data, msg[i].prNumbers)),
               store, stored)
    /\ UNCHANGED <<msg, stored>>
    /\ UNCHANGED <<thrVars, envVars, clrVars>>

\* The entry covers every requested number but is stale: start the detached
\* fetchReviewersFromAPI (it runs up to its await of getGitHubToken) and
\* respond with the filtered cache.
ServeStale(i) ==
    LET entry == getCachedData(store[KeyOf(i)]) IN
    /\ rpc[i] = "read"
    /\ IsEntry(entry) /\ ~DataNullish(entry)
    /\ hasAllData(entry.data, msg[i].prNumbers)
    /\ isCacheStale(entry, now)
    /\ entryRead' = [entryRead EXCEPT ![i] = store[KeyOf(i)]]
    /\ cachedEntry' = [cachedEntry EXCEPT ![i] = entry]
    /\ readAt' = [readAt EXCEPT ![i] = now]
    /\ fetchArgs' = [fetchArgs EXCEPT ![<<i, "bg">>] = msg[i].prNumbers]
    /\ fpc' = [fpc EXCEPT ![<<i, "bg">>] = "token"]
    /\ Respond(i, FromCache(filteredCache(entry.data, msg[i].prNumbers)),
               store, stored)
    /\ UNCHANGED <<msg, stored, result, pending, httpCalls>>
    /\ UNCHANGED <<envVars, clrVars>>

\* mutant: an entry that lacks a requested number is served as it is, with
\* the numbers it has; only a call without an entry fetches
StartFetchServesPartial(i) ==
    LET entry == getCachedData(store[KeyOf(i)]) IN
    /\ rpc[i] = "read"
    /\ \/ ~IsEntry(entry)
       \/ /\ ~DataNullish(entry)
          /\ ~hasAllData(entry.data, msg[i].prNumbers)
    /\ entryRead' = [entryRead EXCEPT ![i] = store[KeyOf(i)]]
    /\ cachedEntry' = [cachedEntry EXCEPT ![i] = entry]
    /\ readAt' = [readAt EXCEPT ![i] = now]
    /\ IF IsEntry(entry)
       THEN /\ Respond(i, FromCache(filteredCache(entry.data, msg[i].prNumbers)),
                       store, stored)
            /\ UNCHANGED <<fetchArgs, fpc>>
       ELSE /\ rpc' = [rpc EXCEPT ![i] = "wait"]
            /\ fetchArgs' = [fetchArgs EXCEPT ![<<i, "sync">>] = msg[i].prNumbers]
            /\ fpc' = [fpc EXCEPT ![<<i, "sync">>] = "token"]
            /\ UNCHANGED <<responses, overlap, retKeys, retStored>>
    /\ UNCHANGED <<msg, stored, result, pending, httpCalls>>
    /\ UNCHANGED <<envVars, clrVars>>

\* No entry, or a requested number is missing from it: call
\* fetchReviewersFromAPI inside the try and await it.
StartFetch(i) ==
    LET entry == getCachedData(store[KeyOf(i)]) IN
    /\ rpc[i] = "read"
    /\ \/ ~IsEntry(entry)
       \/ /\ ~DataNullish(entry)
          /\ ~hasAllData(entry.data, msg[i].prNumbers)
    /\ entryRead' = [entryRead EXCEPT ![i] = store[KeyOf(i)]]
    /\ cachedEntry' = [cachedEntry EXCEPT ![i] = entry]
    /\ readAt' = [readAt EXCEPT ![i] = now]
    /\ rpc' = [rpc EXCEPT ![i] = "wait"]
    /\ fetchArgs' = [fetchArgs EXCEPT ![<<i, "sync">>] = msg[i].prNumbers]
    /\ fpc' = [fpc EXCEPT ![<<i, "sync">>] = "token"]
    /\ UNCHANGED <<msg, responses, result, pending, httpCalls>>
    /\ UNCHANGED <<envVars, clrVars, histVars>>

\* An error e leaves thread t: the catch of getReviewers' try responds with the
\* failure (sync), or .catch(console.error) logs it (bg).
Throw(t, e) ==
    /\ fpc' = [fpc EXCEPT ![t] = "failed"]
    /\ IF t[2] = "sync"
       THEN Respond(t[1], Failure(e), store, stored)
       ELSE UNCHANGED <<responses, rpc, overlap, retKeys, retStored>>
    /\ UNCHANGED stored

\* mutant: no `if (!token)` test; the fetch is issued with whatever was read
FetchTokenUnchecked(t) ==
    /\ fpc[t] = "token"
    /\ fpc' = [fpc EXCEPT ![t] = "http"]
    /\ httpCalls' = [httpCalls EXCEPT ![t] = @ + 1]
    /\ UNCHANGED <<responses, rpc, histVars>>
    /\ UNCHANGED <<msg, entryRead, cachedEntry, readAt>>
    /\ UNCHANGED <<fetchArgs, result, pending>>
    /\ UNCHANGED <<envVars, clrVars>>

\* fetchReviewersFromAPI after getGitHubToken: throw without a token, else
\* build the query and issue the fetch.
FetchToken(t) ==
    /\ fpc[t] = "token"
    /\ IF getGitHubToken(githubToken) = <<>>
       THEN /\ Throw(t, Err("GitHub token not configured"))
            /\ UNCHANGED httpCalls
       ELSE /\ fpc' = [fpc EXCEPT ![t] = "http"]
            /\ httpCalls' = [httpCalls EXCEPT ![t] = @ + 1]
            /\ UNCHANGED <<responses, rpc, histVars>>
    /\ UNCHANGED <<msg, entryRead, cachedEntry, readAt>>
    /\ UNCHANGED <<fetchArgs, result, pending>>
    /\ UNCHANGED <<envVars, clrVars>>

\* The HTTP exchange settles with outcome o. On a parsed result the caller
\* merges it over the data of its cachedEntry and calls setCachedData, which
\* stamps the entry with Date.now() and awaits storage.set.
FetchSettle(t, o) ==
    LET prNumbers == fetchArgs[t]
        newData == IF o.kind = "data"
                   THEN ParseResponse(prNumbers, o.repository)
                   ELSE EmptyObject
    IN
    /\ fpc[t] = "http"
    /\ o \in HttpOutcomes(buildGraphQLQuery(prNumbers))
    /\ CASE o.kind = "reject" ->
              /\ Throw(t, Err("Failed to fetch"))
              /\ UNCHANGED <<result, pending>>
         [] o.kind = "status" ->
              /\ Throw(t, Err("GitHub API error: " \o NumberToString(o.status)))
              /\ UNCHANGED <<result, pending>>
         [] o.kind = "errors" ->
              /\ Throw(t, Err("GraphQL error: " \o o.message))
              /\ UNCHANGED <<result, pending>>
         [] OTHER ->
              /\ result' = [result EXCEPT ![t] = newData]
              /\ pending' = [pending EXCEPT ![t] =
                    setCachedData(ObjectSpread(existingData(cachedEntry[t[1]]),
                                               newData), now)]
              /\ fpc' = [fpc EXCEPT ![t] = "write"]
              /\ UNCHANGED <<responses, rpc, histVars>>
    /\ UNCHANGED <<msg, entryRead, cachedEntry, readAt>>
    /\ UNCHANGED <<fetchArgs, httpCalls>>
    /\ UNCHANGED <<envVars, clrVars>>

\* mutant: getReviewers returns the merged data it stored
FetchWriteReturnsMerged(t) ==
    LET key == KeyOf(t[1])
        st == [store EXCEPT ![key] = pending[t]]
        sk == IF t[2] = "sync"
              THEN [stored EXCEPT ![key] = @ \cup DOMAIN pending[t].data]
              ELSE stored
    IN
    /\ fpc[t] = "write"
    /\ store' = st
    /\ stored' = sk
    /\ fpc' = [fpc EXCEPT ![t] = "done"]
    /\ IF t[2] = "sync"
       THEN Respond(t[1], Fetched(pending[t].data), st, sk)
       ELSE UNCHANGED <<responses, rpc, overlap, retKeys, retStored>>
    /\ UNCHANGED <<msg, entryRead, cachedEntry, readAt>>
    /\ UNCHANGED <<fetchArgs, result, pending, httpCalls>>
    /\ UNCHANGED <<githubToken, now, ticks, saves, clrVars>>

\* mutant: a compare-and-swap write; the entry is stored only if the value
\* under the key is still the one the call read
FetchWriteUnlessChanged(t) ==
    LET key == KeyOf(t[1])
        st == IF store[key] = entryRead[t[1]]
              THEN [store EXCEPT ![key] = pending[t]]
              ELSE store
        sk == IF t[2] = "sync"
              THEN [stored EXCEPT ![key] = @ \cup DOMAIN pending[t].data]
              ELSE stored
    IN
    /\ fpc[t] = "write"
    /\ store' = st
    /\ stored' = sk
    /\ fpc' = [fpc EXCEPT ![t] = "done"]
    /\ IF t[2] = "sync"
       THEN Respond(t[1], Fetched(result[t]), st, sk)
       ELSE UNCHANGED <<responses, rpc, overlap, retKeys, retStored>>
    /\ UNCHANGED <<msg, entryRead, cachedEntry, readAt>>
    /\ UNCHANGED <<fetchArgs, result, pending, httpCalls>>
    /\ UNCHANGED <<githubToken, now, ticks, saves, clrVars>>

\* chrome.storage.local.set of setCachedData completes: the pending entry
\* replaces the value under the key; getReviewers returns the fetched data.
FetchWrite(t) ==
    LET key == KeyOf(t[1])
        st == [store EXCEPT ![key] = pending[t]]
        sk == IF t[2] = "sync"
              THEN [stored EXCEPT ![key] = @ \cup DOMAIN pending[t].data]
              ELSE stored
    IN
    /\ fpc[t] = "write"
    /\ store' = st
    /\ stored' = sk
    /\ fpc' = [fpc EXCEPT ![t] = "done"]
    /\ IF t[2] = "sync"
       THEN Respond(t[1], Fetched(result[t]), st, sk)
       ELSE UNCHANGED <<responses, rpc, overlap, retKeys, retStored>>
    /\ UNCHANGED <<msg, entryRead, cachedEntry, readAt>>
    /\ UNCHANGED <<fetchArgs, result, pending, httpCalls>>
    /\ UNCHANGED <<githubToken, now, ticks, saves, clrVars>>

\* mutant: the rejected write has already replaced the entry by the fetched
\* data alone
FetchWriteFailsPartial(t) ==
    /\ fpc[t] = "write"
    /\ fpc' = [fpc EXCEPT ![t] = "failed"]
    /\ store' = [store EXCEPT ![KeyOf(t[1])] = Entry(pending[t].timestamp, result[t])]
    /\ IF t[2] = "sync"
       THEN Respond(t[1], Failure(Err("QUOTA_BYTES quota exceeded")), store', stored)
       ELSE UNCHANGED <<responses, rpc, overlap, retKeys, retStored>>
    /\ UNCHANGED stored
    /\ UNCHANGED <<msg, entryRead, cachedEntry, readAt>>
    /\ UNCHANGED <<fetchArgs, result, pending, httpCalls>>
    /\ UNCHANGED <<githubToken, now, ticks, saves, clrVars>>

\* chrome.storage.local.set rejects (quota): nothing is stored.
FetchWriteFails(t) ==
    /\ fpc[t] = "write"
    /\ Throw(t, Err("QUOTA_BYTES quota exceeded"))
    /\ UNCHANGED <<msg, entryRead, cachedEntry, readAt>>
    /\ UNCHANGED <<fetchArgs, result, pending, httpCalls>>
    /\ UNCHANGED <<envVars, clrVars>>

\* options.tsx saveToken: store the text of the token field
saveToken(token) ==
    /\ saves < MaxSaves
    /\ saves' = saves + 1
    /\ githubToken' = TokenValue(token)
    /\ UNCHANGED <<store, now, ticks>>
    /\ UNCHANGED <<reqVars, thrVars, clrVars, histVars>>

\* options.tsx clearCache up to its await of storage.remove: collect the
\* reviewers:* keys present; with none there is nothing to remove.
clearCache ==
    LET cacheKeys == {k \in StorageKeys : store[k].type # "undefined"} IN
    /\ clearpc = "idle"
    /\ clears < MaxClears
    /\ clears' = clears + 1
    /\ clearKeys' = cacheKeys
    /\ clearpc' = IF cacheKeys # {} THEN "remove" ELSE "idle"
    /\ UNCHANGED <<reqVars, thrVars, envVars, histVars>>

\* chrome.storage.local.remove(cacheKeys) completes
clearCacheRemove ==
    /\ clearpc = "remove"
    /\ store' = [k \in StorageKeys |-> IF k \in clearKeys THEN Absent ELSE store[k]]
    /\ stored' = [k \in StorageKeys |-> IF k \in clearKeys THEN {} ELSE stored[k]]
    /\ clearpc' = "idle"
    /\ UNCHANGED <<clearKeys, clears>>
    /\ UNCHANGED <<githubToken, now, ticks, saves>>
    /\ UNCHANGED <<reqVars, thrVars, overlap, retKeys, retStored>>

\* time passes
Tick(d) ==
    /\ ticks < MaxTicks
    /\ ticks' = ticks + 1
    /\ now' = now + d
    /\ UNCHANGED <<store, githubToken, saves>>
    /\ UNCHANGED <<reqVars, thrVars, clrVars, histVars>>

\* the page gains a row element of some kind (initial render, pagination,
\* a turbo render)
AddRow(r, kind) ==
    /\ rows[r].where = "none"
    /\ \A q \in RowIds : q < r => rows[q].where # "none"
    /\ rows' = [rows EXCEPT ![r] = RowElement("dom", kind, FALSE, 0)]
    /\ UNCHANGED <<pathIsPulls, ipc, rowMap, sent, included>>
    /\ UNCHANGED bgVars

\* the page drops a row element; a rowMap that holds it keeps it
RemoveRow(r) ==
    /\ rows[r].where = "dom"
    /\ rows' = [rows EXCEPT ![r].where = "detached"]
    /\ UNCHANGED <<pathIsPulls, ipc, rowMap, sent, included>>
    /\ UNCHANGED bgVars

\* the location changes between a pull request list and another page
Navigate ==
    /\ pathIsPulls' = ~pathIsPulls
    /\ UNCHANGED <<rows, ipc, rowMap, sent, included>>
    /\ UNCHANGED bgVars

\* mutant: the rows are marked only after the response has arrived
injectReviewersMarksLate(k) ==
    LET scan == ScanRows(1, EmptyMap, <<>>) IN
    /\ ipc[k] = "idle"
    /\ \A j \in Runs : j < k => ipc[j] # "idle"
    /\ IF ~pathIsPulls \/ PrRows = {} \/ DOMAIN scan.map = {}
       THEN /\ ipc' = [ipc EXCEPT ![k] = "done"]
            /\ UNCHANGED <<rows, rowMap, sent, included>>
       ELSE /\ rowMap' = [rowMap EXCEPT ![k] = scan.map]
            /\ sent' = [sent EXCEPT ![k] = scan.keys]
            /\ included' =
                  [r \in RowIds |->
                      IF /\ r \in PrRows
                         /\ NumberTruthy(getPRNumberFromRow(rows[r]))
                         /\ \E x \in DOMAIN scan.keys :
                               scan.keys[x] = getPRNumberFromRow(rows[r])[1]
                      THEN included[r] \cup {k}
                      ELSE included[r]]
            /\ ipc' = [ipc EXCEPT ![k] = "await"]
            /\ UNCHANGED rows
    /\ UNCHANGED pathIsPulls
    /\ UNCHANGED bgVars

\* injectReviewers up to its await of chrome.runtime.sendMessage (run k, called
\* by init, by a turbo:render timer or by a mutation-observer timer): return
\* when the path is no pull request list, no row matches or rowMap stays
\* empty; else mark the rows put into rowMap and send their numbers.
injectReviewers(k) ==
    LET scan == ScanRows(1, EmptyMap, <<>>) IN
    /\ ipc[k] = "idle"
    /\ \A j \in Runs : j < k => ipc[j] # "idle"
    /\ IF ~pathIsPulls \/ PrRows = {} \/ DOMAIN scan.map = {}
       THEN /\ ipc' = [ipc EXCEPT ![k] = "done"]
            /\ UNCHANGED <<rows, rowMap, sent, included>>
       ELSE /\ rows' = [r \in RowIds |->
                           IF r \in Marked
                           THEN [rows[r] EXCEPT !.processed = TRUE]
                           ELSE rows[r]]
            /\ rowMap' = [rowMap EXCEPT ![k] = scan.map]
            /\ sent' = [sent EXCEPT ![k] = scan.keys]
            /\ included' =
                  [r \in RowIds |->
                      IF /\ r \in PrRows
                         /\ NumberTruthy(getPRNumberFromRow(rows[r]))
                         /\ \E x \in DOMAIN scan.keys :
                               scan.keys[x] = getPRNumberFromRow(rows[r])[1]
                      THEN included[r] \cup {k}
                      ELSE included[r]]
            /\ ipc' = [ipc EXCEPT ![k] = "await"]
    /\ UNCHANGED pathIsPulls
    /\ UNCHANGED bgVars

\* what the await of sendMessage may settle with for the numbers sent: a
\* rejection, a failure response, or a success response whose data has keys
\* of some of the numbers
PageOutcomes(prNumbers) ==
    {[kind |-> "reject"]}
    \cup {[kind |-> "response", response |-> Failure(Err("Failed to fetch"))]}
    \cup {[kind |-> "response", response |-> Fetched([key \in S |-> <<>>])] :
             S \in SUBSET KeysOf(prNumbers)}

\* injectReviewerColumn(row, reviewers): the row with one more cell, unless it
\* has a cell already or has no right section
injectReviewerColumn(row) ==
    IF row.columns > 0 \/ ~row.kind.rightSection
    THEN row
    ELSE [row EXCEPT !.columns = @ + 1]

\* The await of run k settles with outcome o: on a success response, for each
\* key of its data whose number rowMap holds, inject the column into that row.
injectReviewersResume(k, o) ==
    /\ ipc[k] = "await"
    /\ o \in PageOutcomes(sent[k])
    /\ ipc' = [ipc EXCEPT ![k] = "done"]
    /\ IF o.kind = "response" /\ o.response.success
       THEN LET numbers == {ParseIntKey(key) : key \in DOMAIN o.response.data}
                targets == {rowMap[k][n] : n \in numbers \cap DOMAIN rowMap[k]}
            IN  rows' = [r \in RowIds |->
                            IF r \in targets THEN injectReviewerColumn(rows[r])
                            ELSE rows[r]]
       ELSE UNCHANGED rows
    /\ UNCHANGED <<pathIsPulls, rowMap, sent, included>>
    /\ UNCHANGED bgVars

NextOn(parts) ==
    \/ \E i \in Requests, p \in parts, prNumbers \in PrNumberLists :
          Request(i, p[1], p[2], prNumbers) /\ UNCHANGED domVars
    \/ \E i \in Requests : ReadFails(i) /\ UNCHANGED domVars
    \/ \E i \in Requests : ReadThrows(i) /\ UNCHANGED domVars
    \/ \E i \in Requests : ServeFresh(i) /\ UNCHANGED domVars
    \/ \E i \in Requests : ServeStale(i) /\ UNCHANGED domVars
    \/ \E i \in Requests : StartFetch(i) /\ UNCHANGED domVars
    \/ \E t \in Threads : FetchToken(t) /\ UNCHANGED domVars
    \/ \E t \in Threads :
          \E o \in HttpOutcomes(buildGraphQLQuery(fetchArgs[t])) :
             FetchSettle(t, o) /\ UNCHANGED domVars
    \/ \E t \in Threads : FetchWrite(t) /\ UNCHANGED domVars
    \/ \E t \in Threads : FetchWriteFails(t) /\ UNCHANGED domVars
    \/ \E token \in {"", "ghp_1"} : saveToken(token) /\ UNCHANGED domVars
    \/ \E d \in {CACHE_TTL_MS, CACHE_TTL_MS + 1} : Tick(d) /\ UNCHANGED domVars

\* one repository's pull request list
Init == InitOn({<<"octo", "app">>}, InitRaws)
Next == NextOn({<<"octo", "app">>})
Spec == Init /\ [][Next]_vars

\* the same, started on a malformed stored value
InitMalformed == InitOn({<<"octo", "app">>}, MalformedRaws) /\ store # [k \in StorageKeys |-> Absent]
SpecMalformed == InitMalformed /\ [][Next]_vars

\* two repositories' pull request lists open at once
InitPartitions ==
    /\ InitOn(Partitions, {OldEntry, NullDataEntry})
    /\ \E e \in {OldEntry, NullDataEntry} :
          store = [k \in StorageKeys |->
                      IF k = getCacheKey("octo", "app") THEN e ELSE Absent]
NextPartitions == NextOn(Partitions)
SpecPartitions == InitPartitions /\ [][NextPartitions]_vars

\* the same as Spec, with the options page clearing the cache
NextClear ==
    \/ Next
    \/ clearCache /\ UNCHANGED domVars
    \/ clearCacheRemove /\ UNCHANGED domVars
SpecClear == Init /\ [][NextClear]_vars

\* the pull request list page alone, the background answering its messages
InitPageOnly == InitOn({}, {})
NextPage ==
    \/ \E r \in RowIds, kind \in RowKinds : AddRow(r, kind)
    \/ \E r \in RowIds : RemoveRow(r)
    \/ Navigate
    \/ \E k \in Runs : injectReviewers(k)
    \/ \E k \in Runs : \E o \in PageOutcomes(sent[k]) : injectReviewersResume(k, o)
SpecPage == InitPageOnly /\ [][NextPage]_vars

\* ----------------------------------------------------------------- claims

\* the single response of call i
Response(i) == responses[i][1]
Responded(i) == Len(responses[i]) > 0

\* call i examined a well-formed entry that has a key for every requested number
ReadCovering(i) ==
    /\ entryRead[i].type = "object"
    /\ entryRead[i].has = {"timestamp", "data"}
    /\ ~entryRead[i].dataNull
    /\ KeysOf(msg[i].prNumbers) \subseteq DOMAIN entryRead[i].data

\* the age of the entry call i examined, when it examined it
AgeRead(i) == readAt[i] - entryRead[i].timestamp

\* the cached values of exactly the requested numbers
CachedValues(i) == [k \in KeysOf(msg[i].prNumbers) |-> entryRead[i].data[k]]

\* call i started no fetch, stored nothing and has nothing left to store
NoFetch(i) ==
    \A k \in Kinds :
        /\ fpc[<<i, k>>] = "none"
        /\ httpCalls[<<i, k>>] = 0
        /\ pending[<<i, k>>] = Absent

\* C1 (as claimed): in a run of non-overlapping successful calls on one
\* partition with no cache clear, every key stored by an earlier call is a key
\* of the stored entry when a later call responds.
C1_EarlierKeysKept ==
    \A i \in Requests :
        (~overlap /\ Responded(i) /\ Response(i).success)
            => retStored[i] \subseteq retKeys[i]

\* C2: a call that reads a well-formed entry covering every requested number,
\* of age at most the TTL, responds {success: true, fromCache: true} with the
\* cached values of the requested numbers, starts no fetch and stores nothing.
C2_FreshServedFromCache ==
    \A i \in Requests :
        (ReadCovering(i) /\ AgeRead(i) <= 300000)
            => /\ responses[i] = <<FromCache(CachedValues(i))>>
               /\ rpc[i] = "done"
               /\ NoFetch(i)

C2_Witness ==
    \E i \in Requests :
        /\ ReadCovering(i) /\ AgeRead(i) = 300000
        /\ Len(msg[i].prNumbers) = 2
        /\ Responded(i) /\ Response(i).fromCache

\* C3: a call that reads a well-formed entry covering every requested number,
\* older than the TTL, has responded {success: true, fromCache: true} with the
\* cached values whatever the state of its refresh, awaits no fetch itself, and
\* has started one detached fetch, of exactly the requested numbers, which
\* issues at most one HTTP call; no refresh runs before its call has responded.
C3_StaleServedAndRefreshed ==
    \A i \in Requests :
        /\ (ReadCovering(i) /\ AgeRead(i) > 300000)
              => /\ responses[i] = <<FromCache(CachedValues(i))>>
                 /\ rpc[i] = "done"
                 /\ fpc[<<i, "sync">>] = "none"
                 /\ fpc[<<i, "bg">>] # "none"
                 /\ fetchArgs[<<i, "bg">>] = msg[i].prNumbers
                 /\ httpCalls[<<i, "bg">>] <= 1
        /\ fpc[<<i, "bg">>] # "none"
              => /\ Len(responses[i]) = 1
                 /\ ReadCovering(i) /\ AgeRead(i) > 300000

C3_Witness ==
    \E i \in Requests :
        /\ ReadCovering(i) /\ AgeRead(i) > 300000
        /\ Responded(i) /\ Response(i).fromCache
        /\ fpc[<<i, "bg">>] = "http"

\* the data a raw stored value holds as a cache entry
StoredData(raw) == existingData(getCachedData(raw))

\* in this step the refresh of call i has its fetch settle with a result
RefreshSettles(i) ==
    fpc[<<i, "bg">>] = "http" /\ fpc'[<<i, "bg">>] = "write"

\* in this step the refresh of call i fails
RefreshFails(i) ==
    InFlight(<<i, "bg">>) /\ fpc'[<<i, "bg">>] = "failed"

\* in this step the awaited fetch of call i fails
FetchFails(i) ==
    InFlight(<<i, "sync">>) /\ fpc'[<<i, "sync">>] = "failed"

\* C4 (as claimed): when the fetch of a refresh settles with a result, the
\* entry it goes on to persist is the data stored for the partition at that
\* moment united with the fetched data, fetched values winning, stamped with
\* the current time.
C4_RefreshMergesCurrentEntry ==
    [][\A i \in Requests :
          RefreshSettles(i) =>
             pending'[<<i, "bg">>] =
                Entry(now, ObjectSpread(StoredData(store[KeyOf(i)]),
                                        result'[<<i, "bg">>]))]_vars

\* C5: a step in which a refresh fails changes nothing in the store, and the
\* response of its call stays the one {success: true, fromCache: true}
\* response already sent.
C5_FailedRefreshLeavesStore ==
    [][\A i \in Requests :
          RefreshFails(i) =>
             /\ store' = store
             /\ responses'[i] = responses[i]
             /\ responses[i] = <<FromCache(CachedValues(i))>>]_vars

C5_Witness ==
    \E i \in Requests :
        /\ fpc[<<i, "bg">>] = "failed"
        /\ httpCalls[<<i, "bg">>] = 1
        /\ store[KeyOf(i)] = entryRead[i]
        /\ Responded(i) /\ Response(i).fromCache

\* call i examined no entry (null), or a well-formed entry that lacks a key
\* of a requested number
ReadMissing(i) ==
    \/ cachedEntry[i] = Absent
    \/ /\ cachedEntry[i].type = "object"
       /\ ~DataNullish(cachedEntry[i])
       /\ ~(KeysOf(msg[i].prNumbers) \subseteq DOMAIN cachedEntry[i].data)

\* C6: a call that reads no entry, or an entry lacking a requested number, of
\* whatever age, awaits a fetch of all the requested numbers and starts no
\* refresh; once that fetch has succeeded its response is {success: true,
\* fromCache: false} with exactly the fetched mapping, which has keys of
\* requested numbers only.
C6_MissFetchesAll ==
    \A i \in Requests :
        ReadMissing(i) =>
            /\ fpc[<<i, "sync">>] # "none"
            /\ fetchArgs[<<i, "sync">>] = msg[i].prNumbers
            /\ fpc[<<i, "bg">>] = "none"
            /\ InFlight(<<i, "sync">>) => ~Responded(i)
            /\ fpc[<<i, "sync">>] = "done" =>
                  /\ responses[i] = <<Fetched(result[<<i, "sync">>])>>
                  /\ DOMAIN result[<<i, "sync">>] \subseteq KeysOf(msg[i].prNumbers)

\* a fresh entry holding "1" only, numbers 1 and 2 requested, the remote
\* answering for 2 only: the response does not carry the cached "1"
C6_Witness ==
    \E i \in Requests :
        /\ cachedEntry[i].type = "object"
        /\ DOMAIN cachedEntry[i].data = {"1"}
        /\ readAt[i] - cachedEntry[i].timestamp <= 300000
        /\ KeysOf(msg[i].prNumbers) = {"1", "2"}
        /\ fpc[<<i, "sync">>] = "done"
        /\ Responded(i) /\ ~Response(i).fromCache
        /\ DOMAIN Response(i).data = {"2"}
        /\ DOMAIN store[KeyOf(i)].data = {"1", "2"}

\* C7: a step in which the awaited fetch of a call fails leaves the store as
\* it was and makes the call's only response {success: false, error} with a
\* non-empty error and no data; a fetch that finds no credential fails in that
\* step, having issued no HTTP call.
C7_FailedFetchReported ==
    [][\A i \in Requests :
          /\ FetchFails(i) =>
                /\ store' = store
                /\ Len(responses'[i]) = 1
                /\ DOMAIN responses'[i][1] = {"success", "error"}
                /\ ~responses'[i][1].success
                /\ responses'[i][1].error # ""
          /\ (fpc[<<i, "sync">>] = "token" /\ fpc'[<<i, "sync">>] # "token"
                /\ (githubToken.type # "string" \/ githubToken.value = "")) =>
                /\ FetchFails(i)
                /\ httpCalls'[<<i, "sync">>] = 0]_vars

\* no credential and an empty cache: a failure, no HTTP call, nothing stored
C7_Witness ==
    \E i \in Requests :
        /\ entryRead[i] = Absent
        /\ githubToken = NoToken
        /\ fpc[<<i, "sync">>] = "failed"
        /\ httpCalls[<<i, "sync">>] = 0
        /\ Responded(i) /\ ~Response(i).success /\ Response(i).error # ""
        /\ store[KeyOf(i)] = Absent

\* call i examined a well-formed entry
ReadEntry(i) ==
    /\ entryRead[i].type = "object"
    /\ entryRead[i].has = {"timestamp", "data"}
    /\ ~entryRead[i].dataNull

\* C8: a key the fetch returned with an empty sequence is persisted with the
\* empty sequence; a call for one number whose key a well-formed entry of age
\* at most the TTL holds with the empty sequence is served from cache with no
\* fetch; a call for one number whose key the entry lacks awaits a fetch.
C8_EmptyResultIsCovered ==
    /\ \A t \in Threads :
          fpc[t] \in {"write", "done"} =>
             \A k \in DOMAIN result[t] :
                result[t][k] = <<>> =>
                   k \in DOMAIN pending[t].data /\ pending[t].data[k] = <<>>
    /\ \A i \in Requests :
          (ReadEntry(i) /\ Len(msg[i].prNumbers) = 1) =>
             LET k == NumberToString(msg[i].prNumbers[1]) IN
             /\ (/\ k \in DOMAIN entryRead[i].data
                 /\ entryRead[i].data[k] = <<>>
                 /\ AgeRead(i) <= 300000)
                   => /\ responses[i] = <<FromCache(k :> <<>>)>>
                      /\ NoFetch(i)
             /\ k \notin DOMAIN entryRead[i].data
                   => fpc[<<i, "sync">>] # "none"

C8_Witness ==
    \E i \in Requests :
        /\ ReadEntry(i) /\ Len(msg[i].prNumbers) = 1
        /\ NumberToString(msg[i].prNumbers[1]) \in DOMAIN entryRead[i].data
        /\ entryRead[i].data[NumberToString(msg[i].prNumbers[1])] = <<>>
        /\ AgeRead(i) <= 300000
        /\ Responded(i) /\ Response(i).fromCache
        /\ NoFetch(i)

\* the value call i read is absent, not an object, or lacks a field
ReadMalformed(i) ==
    /\ entryRead[i] # Unread
    /\ \/ entryRead[i].type # "object"
       \/ "timestamp" \notin entryRead[i].has
       \/ "data" \notin entryRead[i].has

\* C9: a call that reads an absent value, a non-object or an object lacking
\* timestamp or data has null as its cachedEntry, awaits a fetch of all the
\* requested numbers, fails only if that fetch fails, and on success has
\* persisted the well-formed entry of exactly the fetched data.
C9_MalformedIsNoCache ==
    \A i \in Requests :
        ReadMalformed(i) =>
            /\ cachedEntry[i] = Absent
            /\ fpc[<<i, "sync">>] # "none"
            /\ fetchArgs[<<i, "sync">>] = msg[i].prNumbers
            /\ fpc[<<i, "bg">>] = "none"
            /\ (Responded(i) /\ ~Response(i).success) => fpc[<<i, "sync">>] = "failed"
            /\ fpc[<<i, "sync">>] = "done" =>
                  /\ responses[i] = <<Fetched(result[<<i, "sync">>])>>
                  /\ pending[<<i, "sync">>].type = "object"
                  /\ pending[<<i, "sync">>].has = {"timestamp", "data"}
                  /\ ~pending[<<i, "sync">>].dataNull
                  /\ pending[<<i, "sync">>].data = result[<<i, "sync">>]
                  /\ retKeys[i] = DOMAIN result[<<i, "sync">>]

\* an object without data was read, and the fetch replaced it
C9_Witness ==
    \E i \in Requests :
        /\ entryRead[i].type = "object" /\ entryRead[i].has = {"timestamp"}
        /\ fpc[<<i, "sync">>] = "done"
        /\ Responded(i) /\ Response(i).success
        /\ store[KeyOf(i)] = pending[<<i, "sync">>]
        /\ DOMAIN store[KeyOf(i)].data # {}

\* a structured response: success with data, or failure with an error string
Structured(r) ==
    IF r.success
    THEN {"success", "data"} \subseteq DOMAIN r /\ "error" \notin DOMAIN r
    ELSE DOMAIN r = {"success", "error"} /\ r.error # ""

\* a step of call i that is not a failure of the store or of the remote
CallStep(i) ==
    \/ ReadThrows(i) \/ ServeFresh(i) \/ ServeStale(i) \/ StartFetch(i)
    \/ FetchToken(<<i, "sync">>)
    \/ FetchSettle(<<i, "sync">>, [kind |-> "norepo"])
    \/ FetchWrite(<<i, "sync">>)

\* C10: a call has no response before the listener has finished with it and
\* exactly one, structured, after; a call without a response can always take
\* another step, so no failure strands it.
C10_OneStructuredResponse ==
    \A i \in Requests :
        /\ rpc[i] \in {"idle", "read", "wait"} => responses[i] = <<>>
        /\ rpc[i] = "done" => Len(responses[i]) = 1 /\ Structured(Response(i))
        /\ rpc[i] \in {"read", "wait"} => ENABLED CallStep(i)

\* a fetch succeeded, the store write after it failed, and the call has its
\* failure response
C10_Witness ==
    \E i \in Requests :
        /\ rpc[i] = "done"
        /\ fpc[<<i, "sync">>] = "failed"
        /\ pending[<<i, "sync">>] # Absent
        /\ Len(responses[i]) = 1 /\ ~Response(i).success

\* in this step the awaited fetch of call i settles with a result
SyncSettles(i) ==
    fpc[<<i, "sync">>] = "http" /\ fpc'[<<i, "sync">>] = "write"

\* in this step the storage write of thread t completes
Persists(t) == fpc[t] = "write" /\ fpc'[t] = "done"

\* C11 (as claimed): the entry an awaited fetch persists is stamped with the
\* time at which setCachedData was called, and when its storage write
\* completes the stored entry is the data stored for the partition just before
\* united with the fetched data, fetched values winning.
C11_SyncMergesCurrentEntry ==
    [][\A i \in Requests :
          /\ SyncSettles(i) => pending'[<<i, "sync">>].timestamp = now
          /\ Persists(<<i, "sync">>) =>
                store'[KeyOf(i)] =
                   Entry(pending[<<i, "sync">>].timestamp,
                         ObjectSpread(StoredData(store[KeyOf(i)]),
                                      result[<<i, "sync">>]))]_vars

\* the next step of thread t when neither the store nor the remote fails
ThreadStep(t) ==
    \/ FetchToken(t)
    \/ FetchSettle(t, [kind |-> "norepo"])
    \/ FetchWrite(t)

\* the positions a fetch may move to from position pc
Successors(pc) ==
    CASE pc = "token" -> {"token", "http", "failed"}
      [] pc = "http" -> {"http", "write", "failed"}
      [] pc = "write" -> {"write", "done", "failed"}
      [] OTHER -> {pc}

\* C12: a fetch in flight, awaited or detached, can always take its next step
\* whatever else is in flight; a step moves at most one fetch in flight, along
\* its own course, and leaves the entries the others are persisting as they
\* are; a storage write that completes makes the stored value of its partition
\* exactly the entry it was persisting, and no other step changes the store:
\* the stored entry is the one of the write that completed last.
C12_LastWriteWins ==
    /\ [](\A t \in Threads : InFlight(t) => ENABLED ThreadStep(t))
    /\ [][/\ \A t \in Threads :
               InFlight(t) =>
                  /\ fpc'[t] \in Successors(fpc[t])
                  /\ fpc[t] = "write" => pending'[t] = pending[t]
                  /\ \A u \in Threads \ {t} :
                        InFlight(u) => (fpc'[t] = fpc[t] \/ fpc'[u] = fpc[u])
          /\ \A t \in Threads :
               Persists(t) =>
                  store' = [store EXCEPT ![KeyOf(t[1])] = pending[t]]
          /\ (\A t \in Threads : ~Persists(t)) => store' = store]_vars

\* a refresh and the awaited fetch of a later call that read the same entry
\* have both persisted, the refresh last: its entry is the stored one
C12_Witness ==
    \E i, j \in Requests :
        /\ i < j
        /\ KeyOf(i) = KeyOf(j)
        /\ fpc[<<i, "bg">>] = "done"
        /\ fpc[<<j, "sync">>] = "done"
        /\ cachedEntry[j] = cachedEntry[i]
        /\ pending[<<i, "bg">>].timestamp > cachedEntry[i].timestamp
        /\ pending[<<j, "sync">>] # pending[<<i, "bg">>]
        /\ store[KeyOf(i)] = pending[<<i, "bg">>]

\* the entry call i examined is well-formed and has no key k
MissingRead(i, k) ==
    /\ IsEntry(cachedEntry[i])
    /\ ~DataNullish(cachedEntry[i])
    /\ k \notin DOMAIN cachedEntry[i].data

\* no fetch other than the awaited one of call i has run since call i arrived
Alone(i) == \A u \in Threads \ {<<i, "sync">>} : fpc[u] = "none"

\* the keys that a call stored under a storage key and that a later write
\* has removed from its entry
LostKeys(key) == stored[key] \ StoredKeys(store[key])

\* C13: a call that examines an entry lacking the key of a requested number
\* awaits a fetch of the requested numbers and starts no refresh; once that
\* fetch has succeeded with the number in its result, no other fetch having
\* run meanwhile, the stored entry has the key; and the storage write of an
\* awaited fetch whose result has a key that an earlier call had stored and a
\* later write had removed puts the key back into the stored entry.
C13_LostKeyRefetched ==
    /\ [](\A i \in Requests : \A k \in KeysOf(msg[i].prNumbers) :
            MissingRead(i, k) =>
               /\ fpc[<<i, "sync">>] # "none"
               /\ fetchArgs[<<i, "sync">>] = msg[i].prNumbers
               /\ fpc[<<i, "bg">>] = "none"
               /\ (/\ fpc[<<i, "sync">>] = "done"
                   /\ k \in DOMAIN result[<<i, "sync">>]
                   /\ Alone(i))
                     => k \in StoredKeys(store[KeyOf(i)]))
    /\ [][\A i \in Requests : \A k \in KeysOf(msg[i].prNumbers) :
            (/\ Persists(<<i, "sync">>)
             /\ k \in LostKeys(KeyOf(i))
             /\ k \in DOMAIN result[<<i, "sync">>])
               => k \in StoredKeys(store'[KeyOf(i)])]_vars

\* key "2", stored by an earlier call and removed by the write of a refresh,
\* is missing from the entry a call for it examined; the fetch of that call,
\* the only one running, has returned it and the entry with it is being stored
C13_Witness ==
    \E i \in Requests :
        /\ "2" \in KeysOf(msg[i].prNumbers)
        /\ "2" \in LostKeys(KeyOf(i))
        /\ MissingRead(i, "2")
        /\ cachedEntry[i] = store[KeyOf(i)]
        /\ Alone(i)
        /\ fpc[<<i, "sync">>] = "write"
        /\ "2" \in DOMAIN result[<<i, "sync">>]
        /\ "2" \in DOMAIN pending[<<i, "sync">>].data

\* in this step the fetch of thread t settles with a result
Settles(t) == fpc[t] = "http" /\ fpc'[t] = "write"

\* the keys of the entry thread t's call examined that the fetch of t did not
\* return
Untouched(t) == DOMAIN existingData(cachedEntry[t[1]]) \ DOMAIN result[t]

\* C14: the entry a fetch goes on to persist bears one timestamp, the clock
\* value at which setCachedData was called, and carries every key of the
\* examined entry that the fetch did not return, with its value; a call that
\* examines an entry persisted by a fetch, at most the TTL after that
\* timestamp, and requests only keys of it, is served its values from cache
\* with no fetch, whether or not that fetch returned them.
C14_OneTimestampPerPartition ==
    /\ [][\A t \in Threads :
            Settles(t) =>
               /\ pending'[t] = Entry(now, pending'[t].data)
               /\ \A k \in DOMAIN existingData(cachedEntry[t[1]]) \ DOMAIN result'[t] :
                     /\ k \in DOMAIN pending'[t].data
                     /\ pending'[t].data[k] = cachedEntry[t[1]].data[k]]_vars
    /\ [](\A i \in Requests : \A t \in Threads :
            (/\ fpc[t] = "done"
             /\ entryRead[i] = pending[t]
             /\ KeysOf(msg[i].prNumbers) \subseteq DOMAIN pending[t].data
             /\ readAt[i] - pending[t].timestamp <= 300000)
               => /\ responses[i] = <<FromCache(CachedValues(i))>>
                  /\ NoFetch(i))

\* an entry with keys 1 and 2, stale; the refresh of a call for 1 persists
\* it with the clock's value, and a call for 2, which that refresh did not
\* fetch, is then served from cache with no fetch
C14_Witness ==
    \E i, j \in Requests :
        /\ fpc[<<j, "bg">>] = "done"
        /\ fetchArgs[<<j, "bg">>] = <<1>>
        /\ DOMAIN cachedEntry[j].data = {"1", "2"}
        /\ "2" \in Untouched(<<j, "bg">>)
        /\ pending[<<j, "bg">>].timestamp > cachedEntry[j].timestamp + 300000
        /\ msg[i].prNumbers = <<2>>
        /\ entryRead[i] = pending[<<j, "bg">>]
        /\ readAt[i] - entryRead[i].timestamp <= 300000
        /\ responses[i] = <<FromCache("2" :> cachedEntry[j].data["2"])>>
        /\ NoFetch(i)

\* ages and write times on both sides of the TTL
AgesAroundTTL == {0, 1, 299999, 300000, 300001, 300002, 600000}
WriteTimes == {0, 300001}

\* C15: isCacheStale is true exactly for ages above 300000 ms, whatever the
\* write time; and whatever the message, a call that examines a well-formed
\* entry covering its numbers starts no fetch exactly when the entry's age is
\* at most 300000 ms and starts the refresh exactly when it is 300001 ms or
\* more, being served from cache in both cases.
C15_StaleStrictlyAfterTTL ==
    /\ \A a \in AgesAroundTTL : \A w \in WriteTimes :
          isCacheStale(Entry(w, EmptyObject), w + a) <=> a > 300000
    /\ \A i \in Requests :
          ReadCovering(i) =>
             /\ NoFetch(i) <=> AgeRead(i) <= 300000
             /\ fpc[<<i, "bg">>] # "none" <=> AgeRead(i) >= 300001
             /\ Responded(i) /\ Response(i).success /\ Response(i).fromCache

\* an entry of age exactly 300001 ms is served from cache and refreshed
C15_Witness ==
    \E i \in Requests :
        /\ ReadCovering(i)
        /\ AgeRead(i) = 300001
        /\ Responded(i) /\ Response(i).fromCache
        /\ fpc[<<i, "bg">>] # "none"
        /\ fpc[<<i, "sync">>] = "none"

\* C16: for every request and every repository object the remote may answer
\* it with, the parsed result has a key for the i-th requested number exactly
\* when the object carries the alias pr<i-1>, holds under it the reviewers of
\* that alias, and has no other key; and the result of every fetch that has
\* settled with one has keys of its requested numbers only, each holding the
\* remote's reviewers of that very number.
C16_SparseAliasMapping ==
    /\ \A prNumbers \in PrNumberLists :
          \A r \in RepoDatas(buildGraphQLQuery(prNumbers)) :
             LET res == ParseResponse(prNumbers, r) IN
             /\ DOMAIN res \subseteq KeysOf(prNumbers)
             /\ \A i \in DOMAIN prNumbers :
                   LET k == NumberToString(prNumbers[i]) IN
                   /\ k \in DOMAIN res <=> Alias(i - 1) \in DOMAIN r
                   /\ k \in DOMAIN res => res[k] = ParseNodes(r[Alias(i - 1)])
    /\ \A t \in Threads :
          fpc[t] \in {"write", "done"} =>
             /\ DOMAIN result[t] \subseteq KeysOf(fetchArgs[t])
             /\ \A k \in DOMAIN result[t] :
                   result[t][k] \in {<<>>, <<Reviewer("rev" \o k, "")>>}

\* numbers 1 and 2 requested, the response lacking pr0: the call succeeds
\* with the key "2" only, holding the reviewer of pull request 2
C16_Witness ==
    \E i \in Requests :
        /\ fetchArgs[<<i, "sync">>] = <<1, 2>>
        /\ fpc[<<i, "sync">>] = "done"
        /\ result[<<i, "sync">>] = ("2" :> <<Reviewer("rev2", "")>>)
        /\ responses[i] = <<Fetched(result[<<i, "sync">>])>>

\* call i has a success response marked fromCache
ServedFromCache(i) ==
    /\ Responded(i)
    /\ Response(i).success
    /\ "fromCache" \in DOMAIN Response(i)
    /\ Response(i).fromCache

\* C17: the data of a response marked fromCache has as its keys exactly the
\* decimal strings of the requested numbers, and under each the value that the
\* entry read from the store held under it.
C17_CacheResponseIsRequestedKeys ==
    \A i \in Requests :
        ServedFromCache(i) =>
            /\ DOMAIN Response(i).data =
                  {NumberToString(msg[i].prNumbers[n]) : n \in 1..Len(msg[i].prNumbers)}
            /\ \A k \in DOMAIN Response(i).data :
                  /\ k \in DOMAIN entryRead[i].data
                  /\ Response(i).data[k] = entryRead[i].data[k]

\* the entry read has keys 1 and 2, number 1 alone is requested, and the
\* response served from cache has the key 1 alone
C17_Witness ==
    \E i \in Requests :
        /\ ServedFromCache(i)
        /\ DOMAIN entryRead[i].data = {"1", "2"}
        /\ msg[i].prNumbers = <<1>>
        /\ DOMAIN Response(i).data = {"1"}

\* the partition call i names, and the store key of a partition as the
\* storage contract words it
PartitionOf(i) == <<msg[i].owner, msg[i].repo>>
PartitionKey(p) == "reviewers:" \o p[1] \o "/" \o p[2]

\* in this step call i is handed the value its storage read returned
Reads(i) == rpc[i] = "read" /\ entryRead'[i] # Unread

\* C18: the value a call's storage read returns is the one stored under
\* reviewers:{owner}/{repo} of its own partition; a storage write of a call or
\* of its refresh leaves the entry every other partition reads as it was; a
\* store key changes only in a step that completes the write of a call for the
\* partition of that key; and no step of any call changes the credential.
C18_PartitionIsolation ==
    [][/\ \A i \in Requests :
             Reads(i) =>
                /\ PartitionKey(PartitionOf(i)) \in DOMAIN store
                /\ entryRead'[i] = store[PartitionKey(PartitionOf(i))]
       /\ \A t \in Threads :
             Persists(t) =>
                \A q \in Partitions \ {PartitionOf(t[1])} :
                   store'[getCacheKey(q[1], q[2])] = store[getCacheKey(q[1], q[2])]
       /\ \A k \in DOMAIN store :
             store'[k] # store[k] =>
                \E t \in Threads :
                   Persists(t) /\ k = PartitionKey(PartitionOf(t[1]))
       /\ githubToken' # githubToken =>
             /\ saves' = saves + 1
             /\ UNCHANGED <<reqVars, thrVars>>]_vars

\* the refresh of a call for octo/app and the awaited fetch of a later call
\* for octo/lib ran side by side and both persisted: each entry is the one its
\* own partition's write stored
C18_Witness ==
    \E i, j \in Requests :
        /\ i < j
        /\ PartitionOf(i) = <<"octo", "app">>
        /\ PartitionOf(j) = <<"octo", "lib">>
        /\ fpc[<<i, "bg">>] = "done"
        /\ fpc[<<j, "sync">>] = "done"
        /\ pending[<<j, "sync">>].timestamp = pending[<<i, "bg">>].timestamp
        /\ store[PartitionKey(PartitionOf(i))] = pending[<<i, "bg">>]
        /\ store[PartitionKey(PartitionOf(j))] = pending[<<j, "sync">>]
        /\ DOMAIN pending[<<i, "bg">>].data = {"1"}
        /\ DOMAIN pending[<<j, "sync">>].data = {"2"}

\* C19 (as claimed): once clearCache has removed the key of a partition, the
\* entry that a fetch settling after the removal goes on to persist for that
\* partition, the key still being absent, holds exactly the data that fetch
\* returned, whether the fetch started before or after the removal.
C19_ClearNotUndone ==
    [][\A t \in Threads :
          (/\ Settles(t)
           /\ clears > 0 /\ clearpc = "idle"
           /\ KeyOf(t[1]) \in clearKeys
           /\ store[KeyOf(t[1])] = Absent)
             => pending'[t].data = result'[t]]_vars

\* the numbers of the message run k sent
SentNumbers(k) == {sent[k][x] : x \in DOMAIN sent[k]}

\* C20: no row element has its number taken into the messages of two runs of
\* injectReviewers, and none holds more than one reviewer column; a row whose
\* number a message carries bears data-reviewer-processed from the moment the
\* message is sent, every row in the rowMap of a run that has sent its message
\* bears it, and a row holding a column had its number sent.
C20_RowProcessedOnce ==
    /\ \A r \in RowIds :
          /\ Cardinality(included[r]) <= 1
          /\ rows[r].columns <= 1
          /\ included[r] # {} => rows[r].processed
          /\ rows[r].columns = 1 => included[r] # {}
    /\ \A k \in Runs :
          /\ ipc[k] = "idle" => sent[k] = <<>>
          /\ ipc[k] = "await" => sent[k] # <<>>
          /\ DOMAIN rowMap[k] = SentNumbers(k)
          /\ \A n \in DOMAIN rowMap[k] :
                rows[rowMap[k][n]].processed /\ k \in included[rowMap[k][n]]
    /\ \A j, k \in Runs :
          j # k => \A n \in DOMAIN rowMap[j] : \A m \in DOMAIN rowMap[k] :
                      rowMap[j][n] # rowMap[k][m]

\* a first run has put a column into row 1; two later runs, for rows that
\* appeared after it, await their responses at the same time, the last for a
\* row with the number of row 1
C20_Witness ==
    /\ ipc = <<"done", "await", "await">>
    /\ included = <<{1}, {2}, {3}>>
    /\ rows[1].columns = 1
    /\ sent[1] = sent[3]
    /\ \A r \in RowIds : rows[r].processed

====
